---- MODULE Spec2Model ----
(***************************************************************************)
(* Model of the co-occurrence engine of src/app.py: the CooccurrenceEngine *)
(* tables, load_precomputed, the query methods and the Flask handlers that *)
(* call them.                                                              *)
(*                                                                         *)
(* Conventions.  A Python str is a tuple of code points (so that lower(),  *)
(* strip(), "in" and the ordering of strings are computed, not assumed).   *)
(* A Python dict is the tuple of its <<key, value>> items in insertion     *)
(* order.  A float is an integer number of tenths (0.3 is 3, 1.5 is 15),   *)
(* or NaN.  A list of relationship dicts that a query returns is the tuple *)
(* of the positions those dicts have in engine.relationships: the query    *)
(* returns references to the resident dicts, never copies.                 *)
(***************************************************************************)
EXTENDS Integers, Sequences, FiniteSets, TLC

\* ------------------------------------------------------------------ bounds
MaxRels == 2      \* longest free-form relationship list in a data file
MaxChain == 7     \* most edges in a chain-shaped data file
StarSize == 52    \* relationships between one pair of concepts in a star file
TableSize == 22   \* concepts in the file that has concepts only

\* ----------------------------------------------------------------- strings
Space == 32

None == <<-1>>    \* Python None: different from every str

SeqsUpTo(S, n) == UNION {[1..k -> S] : k \in 0..n}

\* str.lower() on the code points in use
Lower(s) == [i \in DOMAIN s |-> IF s[i] \in 65..90 THEN s[i] + 32 ELSE s[i]]

\* str.strip(): drop leading and trailing whitespace
Strip(s) ==
    LET keep == {i \in DOMAIN s : s[i] # Space}
    IN  IF keep = {} THEN <<>>
        ELSE LET lo == CHOOSE i \in keep : \A j \in keep : i <= j
                 hi == CHOOSE i \in keep : \A j \in keep : j <= i
             IN  SubSeq(s, lo, hi)

\* "sub in s" for two strs
Contains(sub, s) ==
    \E i \in 1..(Len(s) - Len(sub) + 1) : SubSeq(s, i, i + Len(sub) - 1) = sub

\* s < t for two strs: lexicographic on code points
StrLess(s, t) ==
    \E k \in 1..Len(t) :
        /\ \A j \in 1..(k - 1) : j <= Len(s) /\ s[j] = t[j]
        /\ (k > Len(s) \/ s[k] < t[k])

\* truth value of a str-or-None in an if
Truthy(s) == s # None /\ s # <<>>

\* ------------------------------------------------------------------ floats
NaN == -1000

\* a < b and a >= b on floats: every comparison with NaN is false
Lt(a, b) == a # NaN /\ b # NaN /\ a < b
Ge(a, b) == a # NaN /\ b # NaN /\ a >= b

\* ------------------------------------------------------------------- dicts
HasKey(d, k) == \E i \in DOMAIN d : d[i][1] = k

\* d[k] for a key that is present
Get(d, k) == d[CHOOSE i \in DOMAIN d : d[i][1] = k][2]

\* d.get(k, default)
GetOr(d, k, default) == IF HasKey(d, k) THEN Get(d, k) ELSE default

\* --------------------------------------------------------------- list.sort
\* items is a tuple of [k |-> key, v |-> value]; isStr tells which ordering
\* the keys have.  Before(a, b): a must come before b.
Before(a, b, isStr, reverse) ==
    LET lt(x, y) == IF isStr THEN StrLess(x, y) ELSE x < y
    IN  IF reverse THEN lt(b.k, a.k) ELSE lt(a.k, b.k)

\* how many items stand before item i in the stable order: the later items
\* that must come before it and the earlier items it need not come before
Ranks(items, isStr, reverse) ==
    [i \in DOMAIN items |->
        Cardinality({j \in DOMAIN items :
            IF j < i THEN ~Before(items[i], items[j], isStr, reverse)
            ELSE Before(items[j], items[i], isStr, reverse)})]

\* the items, each at the place its rank gives it
Placed(items, rank) ==
    [k \in DOMAIN items |-> items[CHOOSE i \in DOMAIN items : rank[i] = k - 1]]

\* the stable order of items; the items and their ranks are bound as values,
\* so that each is computed once
Sorted(items, isStr, reverse) ==
    CHOOSE out \in {Placed(t, rank) :
                       <<t, rank>> \in {<<u, Ranks(u, isStr, reverse)>> : u \in {items}}} :
        TRUE

Reverse(s) == [i \in DOMAIN s |-> s[Len(s) + 1 - i]]

\* a descending sort made of an ascending sort and a reversal
ListSortThenReverse(items, isStr, reverse) ==
    IF reverse THEN Reverse(Sorted(items, isStr, FALSE))
    ELSE Sorted(items, isStr, FALSE)

\* list.sort(key=..., reverse=...): stable in both directions
ListSort(items, isStr, reverse) == Sorted(items, isStr, reverse)

Values(items) == [i \in DOMAIN items |-> items[i].v]

\* list[:limit]
Slice(s, limit) ==
    IF limit >= 0
    THEN SubSeq(s, 1, IF limit < Len(s) THEN limit ELSE Len(s))
    ELSE SubSeq(s, 1, IF Len(s) + limit > 0 THEN Len(s) + limit ELSE 0)

\* -------------------------------------------------------------- data files
\* concept 0 has the empty string for its id
Id(i) == IF i = 0 THEN <<>> ELSE <<99, 48 + i>>

ConceptName(i) ==
    CASE i = 1 -> <<65, 98>>
      [] i = 2 -> <<97, 66>>
      [] i = 3 -> <<66>>
      [] i = 0 -> <<90>>
      [] OTHER -> <<66 + 32 * (i % 2), 48 + i>>

ConceptCount(i) ==
    CASE i = 1 -> 100
      [] i = 2 -> 50
      [] i = 3 -> 30
      [] i = 0 -> 7
      [] i > 13 -> i
      [] OTHER -> 40 - 3 * i

Rel(n, b, p, asym, cooc) ==
    [narrower_id |-> Id(n), broader_id |-> Id(b),
     narrower_name |-> ConceptName(n), broader_name |-> ConceptName(b),
     narrower_count |-> ConceptCount(n), broader_count |-> ConceptCount(b),
     cooc_count |-> cooc,
     p_broader_given_narrower |-> p,
     p_narrower_given_broader |-> (p * 10) \div asym,
     asymmetry |-> asym]

\* the relationships a free-form file draws from
RelPool ==
    { Rel(2, 1, 8, 30, 20),
      Rel(3, 1, 8, 25, 6),
      Rel(3, 2, 6, 30, 20),
      Rel(2, 3, 5, 20, 5),
      Rel(3, 3, 6, 20, 6),
      Rel(1, 2, 3, 10, 20) }

\* edge i of a chain: concept i+1 is narrower than concept i
ChainEdge(i) == Rel(i + 1, i, IF i % 2 = 1 THEN 9 ELSE 6, 30, 20)

Chain(n) == [i \in 1..n |-> ChainEdge(i)]

\* a cycle of n edges: concept i+1 is narrower than concept i, concept 1 is
\* narrower than concept n
Ring(n) == [i \in 1..n |-> Rel((i % n) + 1, i, 8, 30, 20)]

\* concept 4 is narrower than 2 and than 3, which are narrower than 1;
\* concept 5 is narrower than 4
Diamond ==
    << Rel(2, 1, 8, 30, 20), Rel(3, 1, 6, 30, 20), Rel(4, 2, 8, 30, 20),
       Rel(4, 3, 8, 30, 20), Rel(5, 4, 8, 30, 20) >>

\* n relationships in which concept 1 is narrower than concept 3
Star(n) == [i \in 1..n |-> Rel(1, 3, 5 + (i % 4), 20, 5 + (i % 7))]

\* a document whose concept tables list the concepts of ids, in that order
DocumentOf(rels, ids) ==
    [concept_names |-> [i \in DOMAIN ids |-> <<Id(ids[i]), ConceptName(ids[i])>>],
     concept_counts |-> [i \in DOMAIN ids |-> <<Id(ids[i]), ConceptCount(ids[i])>>],
     total_citations |-> 1000 + Len(rels),
     relationships |-> rels]

Document(rels, k) == DocumentOf(rels, [i \in 1..k |-> i])

Documents ==
    {Document(rels, 3) : rels \in SeqsUpTo(RelPool, MaxRels)}
    \cup {Document(Chain(n), n + 1) : n \in 3..MaxChain}
    \cup {Document(Ring(3), 3), Document(Diamond, 5), Document(Star(StarSize), 3)}
    \cup {DocumentOf(<<>>, [i \in 1..TableSize |-> i + 3]),
          DocumentOf(<<Rel(2, 1, 8, 30, 20)>>, <<1, 2, 0, 3>>)}

RequiredKeys ==
    {"concept_names", "concept_counts", "total_citations", "relationships"}

Without(doc, key) == [k \in (DOMAIN doc) \ {key} |-> doc[k]]

\* what a path can hold: a document, no file, text that is not JSON, or a
\* document that lacks one of the required keys
Files ==
    {[kind |-> "json", data |-> d] : d \in Documents}
    \cup {[kind |-> "missing"], [kind |-> "malformed"]}
    \cup {[kind |-> "json", data |-> Without(Document(Chain(1), 2), key)] :
            key \in RequiredKeys}

\* ------------------------------------------------------------------- state
VARIABLES
    concept_names, concept_counts, total_citations, relationships, loaded,
    pc, req, resp,
    children_of, roots, stack, tree

engine == <<concept_names, concept_counts, total_citations, relationships>>
locals == <<children_of, roots, stack, tree>>
vars == <<concept_names, concept_counts, total_citations, relationships,
          loaded, pc, req, resp, children_of, roots, stack, tree>>

NoReq == [op |-> "none"]
NoResp == [op |-> "none"]

\* CooccurrenceEngine.__init__, then the process waits for a call
Init ==
    /\ concept_names = <<>>
    /\ concept_counts = <<>>
    /\ total_citations = 0
    /\ relationships = <<>>
    /\ loaded = FALSE
    /\ pc = "idle"
    /\ req = NoReq
    /\ resp = NoResp
    /\ children_of = <<>>
    /\ roots = <<>>
    /\ stack = <<>>
    /\ tree = <<>>

\* -------------------------------------------------------- load_precomputed
\* The exception open()/json.load() raise for a file, or "none"
ReadError(file) ==
    CASE file.kind = "missing" -> "FileNotFoundError"
      [] file.kind = "malformed" -> "JSONDecodeError"
      [] OTHER -> "none"

\* Lines 39-45.  The four assignments run in order; the first key that is
\* absent raises KeyError and the assignments before it have happened.
ReadAndAssign(file) ==
    IF ReadError(file) # "none"
    THEN /\ UNCHANGED <<engine, loaded>>
         /\ resp' = [op |-> "load", raised |-> ReadError(file)]
    ELSE LET data == file.data
             has(k) == k \in DOMAIN data
             ok1 == has("concept_names")
             ok2 == ok1 /\ has("concept_counts")
             ok3 == ok2 /\ has("total_citations")
             ok4 == ok3 /\ has("relationships")
         IN  /\ concept_names' = IF ok1 THEN data.concept_names ELSE concept_names
             /\ concept_counts' = IF ok2 THEN data.concept_counts ELSE concept_counts
             /\ total_citations' = IF ok3 THEN data.total_citations ELSE total_citations
             /\ relationships' = IF ok4 THEN data.relationships ELSE relationships
             /\ loaded' = ok4
             /\ resp' = [op |-> "load", raised |-> IF ok4 THEN "none" ELSE "KeyError"]

\* load_precomputed without the test of _loaded
LoadPrecomputedUnguarded(file) == ReadAndAssign(file)

\* lines 36-37, then lines 39-45
LoadPrecomputed(file) ==
    IF loaded
    THEN /\ UNCHANGED <<engine, loaded>>
         /\ resp' = [op |-> "load", raised |-> "none"]
    ELSE ReadAndAssign(file)

Load ==
    /\ pc = "idle"
    /\ \E file \in Files :
        /\ req' = [op |-> "load", file |-> file]
        /\ LoadPrecomputed(file)
    /\ pc' = "respond"
    /\ UNCHANGED locals

\* the caller has the result; the process waits for the next call
Return ==
    /\ pc = "respond"
    /\ pc' = "idle"
    /\ req' = NoReq
    /\ resp' = NoResp
    /\ UNCHANGED <<engine, loaded, locals>>

\* ---------------------------------------------- get_filtered_relationships
Indices(s) == [i \in DOMAIN s |-> i]

\* line 55
ConceptFilterLower(concept_filter) ==
    IF Truthy(concept_filter) THEN Strip(Lower(concept_filter)) ELSE None

\* the filter with "or" for the "and" of lines 67-68
PassesFilterBothNames(r, a) ==
    LET concept_filter_lower == ConceptFilterLower(a.concept_filter)
    IN  /\ ~Lt(r.narrower_count, a.min_narrower_count)
        /\ ~Lt(r.cooc_count, a.min_cooc)
        /\ ~Lt(r.p_broader_given_narrower, a.min_p_broader)
        /\ ~Lt(r.asymmetry, a.min_asymmetry)
        /\ Truthy(concept_filter_lower) =>
              ~(\/ ~Contains(concept_filter_lower, Lower(r.narrower_name))
                \/ ~Contains(concept_filter_lower, Lower(r.broader_name)))

\* lines 58-69: TRUE when no continue is taken for r
PassesFilter(r, a) ==
    LET concept_filter_lower == ConceptFilterLower(a.concept_filter)
    IN  /\ ~Lt(r.narrower_count, a.min_narrower_count)
        /\ ~Lt(r.cooc_count, a.min_cooc)
        /\ ~Lt(r.p_broader_given_narrower, a.min_p_broader)
        /\ ~Lt(r.asymmetry, a.min_asymmetry)
        /\ Truthy(concept_filter_lower) =>
              ~(/\ ~Contains(concept_filter_lower, Lower(r.narrower_name))
                /\ ~Contains(concept_filter_lower, Lower(r.broader_name)))

SortFields ==
    {"asymmetry", "p_broader_given_narrower", "cooc_count",
     "narrower_name", "broader_name"}

NameFields == {"narrower_name", "broader_name"}

SortKey(r, sort_by) == IF sort_by \in NameFields THEN Lower(r[sort_by]) ELSE r[sort_by]

\* lines 72-82: an unknown sort_by leaves the scan order
SortResults(results, sort_by, reverse) ==
    IF sort_by \in SortFields
    THEN Values(ListSort([i \in DOMAIN results |->
                            [k |-> SortKey(relationships[results[i]], sort_by),
                             v |-> results[i]]],
                         sort_by \in NameFields, reverse))
    ELSE results

FilteredResults(a) ==
    LET keep(i) == PassesFilter(relationships[i], a)
    IN  SortResults(SelectSeq(Indices(relationships), keep), a.sort_by, a.sort_desc)

\* the pair with the length taken after the cut
GetFilteredRelationshipsPageLen(a) ==
    LET results == FilteredResults(a)
    IN  [results |-> Slice(results, a.limit), total |-> Len(Slice(results, a.limit))]

\* the pair (results[:limit], len(results))
GetFilteredRelationships(a) ==
    LET results == FilteredResults(a)
    IN  [results |-> Slice(results, a.limit), total |-> Len(results)]

DefaultRelArgs ==
    [min_narrower_count |-> 10, min_cooc |-> 5, min_p_broader |-> 3,
     min_asymmetry |-> 15, concept_filter |-> None, sort_by |-> "asymmetry",
     sort_desc |-> TRUE, limit |-> 500]

FilterTexts == {None, <<>>, <<65>>, <<Space, 97>>, <<Space, Space>>}

\* a request changes the filter parameters or the sort and page parameters
RelArgs ==
    {[DefaultRelArgs EXCEPT !.min_narrower_count = t[1], !.min_cooc = t[2],
                            !.min_p_broader = t[3], !.min_asymmetry = t[4],
                            !.concept_filter = t[5]] :
        t \in {10, 40} \X {5, 10} \X {3, 7, NaN} \X {15, 28, NaN} \X FilterTexts}
    \cup
    {[DefaultRelArgs EXCEPT !.concept_filter = t[1], !.sort_by = t[2],
                            !.sort_desc = t[3], !.limit = t[4]] :
        t \in {None, <<65>>} \X (SortFields \cup {"other"}) \X BOOLEAN
              \X {-1, 0, 1, 500}}

\* the handler with the sort applied to engine.relationships itself
ApiRelationshipsInPlace ==
    /\ pc = "idle" /\ loaded
    /\ \E a \in RelArgs :
        LET order == SortResults(Indices(relationships), a.sort_by, a.sort_desc)
        IN  /\ req' = [op |-> "relationships", args |-> a]
            /\ resp' = [op |-> "relationships"] @@ GetFilteredRelationships(a)
            /\ relationships' = [i \in DOMAIN order |-> relationships[order[i]]]
    /\ pc' = "respond"
    /\ UNCHANGED <<concept_names, concept_counts, total_citations, loaded, locals>>

ApiRelationships ==
    /\ pc = "idle" /\ loaded
    /\ \E a \in RelArgs :
        /\ req' = [op |-> "relationships", args |-> a]
        /\ resp' = [op |-> "relationships"] @@ GetFilteredRelationships(a)
    /\ pc' = "respond"
    /\ UNCHANGED <<engine, loaded, locals>>

\* -------------------------------------------------------- get_concept_tree
\* lines 90-94: the first item whose lower-cased name is the requested one
ResolveConcept(concept_name_lower) ==
    LET hits == {i \in DOMAIN concept_names :
                    Lower(concept_names[i][2]) = concept_name_lower}
    IN  IF hits = {} THEN None
        ELSE concept_names[CHOOSE i \in hits : \A j \in hits : i <= j][1]

\* the suggestions without the sort of line 101
SuggestionsUnsorted(concept_name_lower) ==
    LET hit(i) == Contains(concept_name_lower, Lower(concept_names[i][2]))
        matches == SelectSeq(Indices(concept_names), hit)
        entry(i) == [id |-> concept_names[i][1], name |-> concept_names[i][2],
                     count |-> GetOr(concept_counts, concept_names[i][1], 0)]
    IN  Slice([j \in DOMAIN matches |-> entry(matches[j])], 20)

\* lines 97-102
Suggestions(concept_name_lower) ==
    LET hit(i) == Contains(concept_name_lower, Lower(concept_names[i][2]))
        matches == SelectSeq(Indices(concept_names), hit)
        entry(i) == [id |-> concept_names[i][1], name |-> concept_names[i][2],
                     count |-> GetOr(concept_counts, concept_names[i][1], 0)]
        sorted == ListSort([j \in DOMAIN matches |->
                              [k |-> entry(matches[j]).count, v |-> entry(matches[j])]],
                           FALSE, TRUE)
    IN  Slice(Values(sorted), 20)

\* the broader scan without the cooc_count test of line 109
BroaderScanAnyCooc(concept_id, a) ==
    LET keep(i) ==
            LET r == relationships[i]
            IN  /\ r.narrower_count >= a.min_count
                /\ r.narrower_id = concept_id
                /\ Ge(r.p_broader_given_narrower, a.min_p_broader)
                /\ Ge(r.asymmetry, a.min_asymmetry)
    IN  SelectSeq(Indices(relationships), keep)

\* lines 108-116
BroaderScan(concept_id, a) ==
    LET keep(i) ==
            LET r == relationships[i]
            IN  /\ r.cooc_count >= a.min_cooc /\ r.narrower_count >= a.min_count
                /\ r.narrower_id = concept_id
                /\ Ge(r.p_broader_given_narrower, a.min_p_broader)
                /\ Ge(r.asymmetry, a.min_asymmetry)
    IN  SelectSeq(Indices(relationships), keep)

\* the first loop with "if" for the "elif" of line 117
NarrowerScanIf(concept_id, a) ==
    LET keep(i) ==
            LET r == relationships[i]
            IN  /\ r.cooc_count >= a.min_cooc /\ r.narrower_count >= a.min_count
                /\ r.broader_id = concept_id
                /\ Ge(r.p_broader_given_narrower, a.min_p_broader)
                /\ Ge(r.asymmetry, a.min_asymmetry)
    IN  SelectSeq(Indices(relationships), keep)

\* lines 108-113 and 117-119: the elif is reached when line 114 is false
NarrowerScan(concept_id, a) ==
    LET keep(i) ==
            LET r == relationships[i]
            IN  /\ r.cooc_count >= a.min_cooc /\ r.narrower_count >= a.min_count
                /\ r.narrower_id # concept_id
                /\ r.broader_id = concept_id
                /\ Ge(r.p_broader_given_narrower, a.min_p_broader)
                /\ Ge(r.asymmetry, a.min_asymmetry)
    IN  SelectSeq(Indices(relationships), keep)

\* the symmetric scan behind the min_count test of lines 109-112
SymmetricScanCounted(concept_id, a) ==
    LET keep(i) ==
            LET r == relationships[i]
            IN  /\ ~(r.cooc_count < a.min_cooc)
                /\ r.narrower_count >= a.min_count
                /\ (r.narrower_id = concept_id \/ r.broader_id = concept_id)
                /\ Lt(r.asymmetry, a.min_asymmetry)
                /\ r.p_broader_given_narrower >= 2
    IN  SelectSeq(Indices(relationships), keep)

\* lines 121-126, second loop
SymmetricScan(concept_id, a) ==
    LET keep(i) ==
            LET r == relationships[i]
            IN  /\ ~(r.cooc_count < a.min_cooc)
                /\ (r.narrower_id = concept_id \/ r.broader_id = concept_id)
                /\ Lt(r.asymmetry, a.min_asymmetry)
                /\ r.p_broader_given_narrower >= 2
    IN  SelectSeq(Indices(relationships), keep)

SortByField(results, field) ==
    Values(ListSort([i \in DOMAIN results |->
                        [k |-> relationships[results[i]][field], v |-> results[i]]],
                    FALSE, TRUE))

GetConceptTree(concept_name, a) ==
    LET concept_name_lower == Strip(Lower(concept_name))
        concept_id == ResolveConcept(concept_name_lower)
    IN  IF ~Truthy(concept_id)
        THEN [suggestions |-> Suggestions(concept_name_lower),
              broader |-> <<>>, narrower |-> <<>>, symmetric |-> <<>>]
        ELSE [concept_id |-> concept_id,
              concept_name |-> Get(concept_names, concept_id),
              concept_count |-> Get(concept_counts, concept_id),
              broader |-> Slice(SortByField(BroaderScan(concept_id, a),
                                            "p_broader_given_narrower"), 50),
              narrower |-> Slice(SortByField(NarrowerScan(concept_id, a),
                                             "p_broader_given_narrower"), 50),
              symmetric |-> Slice(SortByField(SymmetricScan(concept_id, a),
                                              "cooc_count"), 30)]

TreeArgs ==
    [min_p_broader : {3, 7, NaN}, min_asymmetry : {15, 28, NaN},
     min_cooc : {3, 10}, min_count : {5, 40}]

ConceptQueries == {<<>>, <<97, 98>>, <<Space, 66>>, <<98>>, <<122>>}

\* api_concept_tree: an empty concept parameter is answered with an error
ApiConceptTree ==
    /\ pc = "idle" /\ loaded
    /\ \E concept \in ConceptQueries, a \in TreeArgs :
        /\ req' = [op |-> "concept_tree", concept |-> concept, args |-> a]
        /\ resp' = IF concept = <<>>
                   THEN [op |-> "concept_tree", error |-> "No concept specified"]
                   ELSE [op |-> "concept_tree"] @@ GetConceptTree(concept, a)
    /\ pc' = "respond"
    /\ UNCHANGED <<engine, loaded, locals>>

\* -------------------------------------------- get_all_concepts, get_stats
GetAllConcepts(min_count) ==
    LET entry(i) == [id |-> concept_names[i][1], name |-> concept_names[i][2],
                     count |-> GetOr(concept_counts, concept_names[i][1], 0)]
        keep(i) == entry(i).count >= min_count
        concepts == SelectSeq(Indices(concept_names), keep)
    IN  Values(ListSort([j \in DOMAIN concepts |->
                            [k |-> entry(concepts[j]).count, v |-> entry(concepts[j])]],
                        FALSE, TRUE))

ApiConcepts ==
    /\ pc = "idle" /\ loaded
    /\ \E min_count \in {5, 40} :
        /\ req' = [op |-> "concepts", min_count |-> min_count]
        /\ resp' = [op |-> "concepts", concepts |-> GetAllConcepts(min_count)]
    /\ pc' = "respond"
    /\ UNCHANGED <<engine, loaded, locals>>

GetStats ==
    [total_concepts |-> Len(concept_names),
     total_citations |-> total_citations,
     total_pairs |-> Len(relationships),
     total_relationships |-> Len(relationships)]

ApiStats ==
    /\ pc = "idle" /\ loaded
    /\ req' = [op |-> "stats"]
    /\ resp' = [op |-> "stats"] @@ GetStats
    /\ pc' = "respond"
    /\ UNCHANGED <<engine, loaded, locals>>

\* --------------------------------------------------------- api_export_yaml
\* keys of the groups dict, in the order the loop of lines 295-296 adds them
GroupKeys(results) ==
    LET first(i) == \A j \in 1..(i - 1) :
                        relationships[results[j]].broader_name
                            # relationships[results[i]].broader_name
    IN  [i \in DOMAIN SelectSeq(Indices(results), first) |->
            relationships[results[SelectSeq(Indices(results), first)[i]]].broader_name]

GroupOf(results, broader_name) ==
    LET member(x) == relationships[x].broader_name = broader_name
    IN  SelectSeq(results, member)

\* sorted(groups.keys()): the names as they are, not lower-cased
SortedKeys(keys) ==
    Values(ListSort([i \in DOMAIN keys |-> [k |-> keys[i], v |-> keys[i]]],
                    TRUE, FALSE))

\* lines 307-315: one block per key; pct is round(p * 100, 1)
ExportBlocks(results) ==
    LET keys == SortedKeys(GroupKeys(results))
        block(name) ==
            LET narrower_list == SortByField(GroupOf(results, name),
                                             "p_broader_given_narrower")
            IN  [broader |-> name,
                 narrower |-> [i \in DOMAIN narrower_list |->
                     [name |-> relationships[narrower_list[i]].narrower_name,
                      pct |-> relationships[narrower_list[i]].p_broader_given_narrower * 10]]]
    IN  [i \in DOMAIN keys |-> block(keys[i])]

ExportArgs ==
    [min_p : {6, 3}, min_asym : {25, 15}, min_cooc : {5}, min_count : {10, 40}]

ApiExportYaml ==
    /\ pc = "idle" /\ loaded
    /\ \E a \in ExportArgs :
        LET listing == GetFilteredRelationships(
                [min_narrower_count |-> a.min_count, min_cooc |-> a.min_cooc,
                 min_p_broader |-> a.min_p, min_asymmetry |-> a.min_asym,
                 concept_filter |-> None, sort_by |-> "broader_name",
                 sort_desc |-> FALSE, limit |-> 5000])
        IN  /\ req' = [op |-> "export_yaml", args |-> a]
            /\ resp' = [op |-> "export_yaml", header |-> a,
                        total |-> listing.total,
                        blocks |-> ExportBlocks(listing.results)]
    /\ pc' = "respond"
    /\ UNCHANGED <<engine, loaded, locals>>

\* ---------------------------------------------------- build_hierarchy_tree
\* lines 156-159
Admitted(r, a) ==
    /\ Ge(r.p_broader_given_narrower, a.min_p_broader)
    /\ Ge(r.asymmetry, a.min_asymmetry)
    /\ r.cooc_count >= a.min_cooc
    /\ r.narrower_count >= a.min_count

AdmittedEdges(a) ==
    LET admit(i) == Admitted(relationships[i], a)
    IN  SelectSeq(Indices(relationships), admit)

\* lines 160-166: the dict stored under the parent for an admitted edge
ChildEntry(r) ==
    [id |-> r.narrower_id, name |-> r.narrower_name, count |-> r.narrower_count,
     p |-> r.p_broader_given_narrower, asymmetry |-> r.asymmetry]

\* lines 152-170: parents in the order their first admitted edge appears,
\* each with its children sorted by p, largest first
ChildrenOf(a) ==
    LET edges == AdmittedEdges(a)
        first(j) == \A h \in 1..(j - 1) :
                        relationships[edges[h]].broader_id
                            # relationships[edges[j]].broader_id
        heads == SelectSeq(Indices(edges), first)
        parent(j) == relationships[edges[heads[j]]].broader_id
        under(parent_id) ==
            LET mine(x) == relationships[x].broader_id = parent_id
                own == SelectSeq(edges, mine)
            IN  Values(ListSort([h \in DOMAIN own |->
                                   [k |-> relationships[own[h]].p_broader_given_narrower,
                                    v |-> ChildEntry(relationships[own[h]])]],
                                FALSE, TRUE))
    IN  [j \in DOMAIN heads |-> <<parent(j), under(parent(j))>>]

\* line 153, 167
HasParent(a) ==
    {relationships[AdmittedEdges(a)[j]].narrower_id : j \in DOMAIN AdmittedEdges(a)}

\* the roots without the sort of line 181
RootsUnsorted(a) ==
    LET children == ChildrenOf(a)
        has_parent == HasParent(a)
        free(j) == children[j][1] \notin has_parent
        tops == SelectSeq(Indices(children), free)
    IN  [h \in DOMAIN tops |->
            [id |-> children[tops[h]][1],
             name |-> Get(concept_names, children[tops[h]][1]),
             count |-> Get(concept_counts, children[tops[h]][1])]]

\* the roots without the test of line 174
RootsAnyParent(a) ==
    LET children == ChildrenOf(a)
        root(j) == [id |-> children[j][1],
                    name |-> Get(concept_names, children[j][1]),
                    count |-> Get(concept_counts, children[j][1])]
    IN  Values(ListSort([h \in DOMAIN children |->
                           [k |-> root(h).count, v |-> root(h)]],
                        FALSE, TRUE))

\* lines 172-181
Roots(a) ==
    LET children == ChildrenOf(a)
        has_parent == HasParent(a)
        free(j) == children[j][1] \notin has_parent
        tops == SelectSeq(Indices(children), free)
        root(j) == [id |-> children[j][1],
                    name |-> Get(concept_names, children[j][1]),
                    count |-> Get(concept_counts, children[j][1])]
    IN  Values(ListSort([h \in DOMAIN tops |->
                           [k |-> root(tops[h]).count, v |-> root(tops[h])]],
                        FALSE, TRUE))

ForestArgs ==
    [min_p_broader : {5, 7, NaN}, min_asymmetry : {20, 28},
     min_cooc : {5, 10}, min_count : {10, 40}]

\* api_hierarchy_tree calls build_hierarchy_tree: lines 152-181 run, the
\* loop over the roots is about to start
ApiHierarchyTree ==
    /\ pc = "idle" /\ loaded
    /\ \E a \in ForestArgs :
        /\ req' = [op |-> "hierarchy_tree", args |-> a]
        /\ children_of' = ChildrenOf(a)
        /\ roots' = Roots(a)
    /\ tree' = <<>>
    /\ stack' = <<>>
    /\ pc' = "forest"
    /\ UNCHANGED <<engine, loaded, resp>>

\* a call of build_subtree: its arguments, where it stands, and its result
Frame(node_id, depth, visited) ==
    [node_id |-> node_id, depth |-> depth, visited |-> visited,
     at |-> "entry", i |-> 1, result |-> <<>>]

\* line 197: build_subtree(root['id']) takes depth=0, and visited=None
\* becomes a new set
RootFrame(node_id) == Frame(node_id, 0, {})

\* the recursive call without its depth and visited arguments
ChildFrameDefaults(child_id, depth, visited) == Frame(child_id, 0, {})

\* line 191: build_subtree(child['id'], depth + 1, visited.copy())
ChildFrame(child_id, depth, visited) == Frame(child_id, depth + 1, visited)

\* line 186
StopHere(node_id, depth, visited) == node_id \in visited \/ depth > 5

Top == stack[Len(stack)]

Children(node_id) == GetOr(children_of, node_id, <<>>)

MaxStack == 10    \* frames the interpreter has room for

\* line 197
CallRoot ==
    /\ pc = "forest" /\ stack = <<>> /\ roots # <<>>
    /\ stack' = <<RootFrame(Head(roots).id)>>
    /\ UNCHANGED <<engine, loaded, pc, req, resp, children_of, roots, tree>>

\* the return with the root appended without the subtree built for it
ReturnToBareRoot(subtree) ==
    IF Len(stack) > 1
    THEN LET caller == stack[Len(stack) - 1]
             child == Children(caller.node_id)[caller.i]
         IN  /\ stack' = [SubSeq(stack, 1, Len(stack) - 1) EXCEPT
                            ![Len(stack) - 1] =
                                [caller EXCEPT
                                    !.result = Append(@, child @@ [children |-> subtree]),
                                    !.i = @ + 1]]
             /\ UNCHANGED <<roots, tree>>
    ELSE /\ stack' = <<>>
         /\ tree' = Append(tree, Head(roots) @@ [children |-> <<>>])
         /\ roots' = Tail(roots)

\* the return when caller and callee share one visited set: what the callee
\* added is in the caller's set afterwards
ReturnToShared(subtree) ==
    IF Len(stack) > 1
    THEN LET caller == stack[Len(stack) - 1]
             child == Children(caller.node_id)[caller.i]
         IN  /\ stack' = [SubSeq(stack, 1, Len(stack) - 1) EXCEPT
                            ![Len(stack) - 1] =
                                [caller EXCEPT
                                    !.result = Append(@, child @@ [children |-> subtree]),
                                    !.visited = @ \cup Top.visited,
                                    !.i = @ + 1]]
             /\ UNCHANGED <<roots, tree>>
    ELSE /\ stack' = <<>>
         /\ tree' = IF subtree # <<>>
                    THEN Append(tree, Head(roots) @@ [children |-> subtree])
                    ELSE tree
         /\ roots' = Tail(roots)

\* a call returns subtree to the frame below it (lines 191-192) or, for the
\* call of a root, to the loop of lines 196-199
ReturnTo(subtree) ==
    IF Len(stack) > 1
    THEN LET caller == stack[Len(stack) - 1]
             child == Children(caller.node_id)[caller.i]
         IN  /\ stack' = [SubSeq(stack, 1, Len(stack) - 1) EXCEPT
                            ![Len(stack) - 1] =
                                [caller EXCEPT
                                    !.result = Append(@, child @@ [children |-> subtree]),
                                    !.i = @ + 1]]
             /\ UNCHANGED <<roots, tree>>
    ELSE /\ stack' = <<>>
         /\ tree' = IF subtree # <<>>
                    THEN Append(tree, Head(roots) @@ [children |-> subtree])
                    ELSE tree
         /\ roots' = Tail(roots)

\* lines 186-187
SubtreeStop ==
    /\ pc = "forest" /\ stack # <<>> /\ Top.at = "entry"
    /\ StopHere(Top.node_id, Top.depth, Top.visited)
    /\ ReturnTo(<<>>)
    /\ UNCHANGED <<engine, loaded, pc, req, resp, children_of>>

\* lines 188-189
SubtreeVisit ==
    /\ pc = "forest" /\ stack # <<>> /\ Top.at = "entry"
    /\ ~StopHere(Top.node_id, Top.depth, Top.visited)
    /\ stack' = [stack EXCEPT ![Len(stack)] =
                    [@ EXCEPT !.visited = @ \cup {Top.node_id}, !.at = "loop"]]
    /\ UNCHANGED <<engine, loaded, pc, req, resp, children_of, roots, tree>>

\* lines 190-191
SubtreeCall ==
    /\ pc = "forest" /\ stack # <<>> /\ Top.at = "loop"
    /\ Top.i <= Len(Children(Top.node_id))
    /\ Len(stack) < MaxStack
    /\ stack' = Append(stack, ChildFrame(Children(Top.node_id)[Top.i].id,
                                         Top.depth, Top.visited))
    /\ UNCHANGED <<engine, loaded, pc, req, resp, children_of, roots, tree>>

\* line 193
SubtreeReturn ==
    /\ pc = "forest" /\ stack # <<>> /\ Top.at = "loop"
    /\ Top.i > Len(Children(Top.node_id))
    /\ ReturnTo(Top.result)
    /\ UNCHANGED <<engine, loaded, pc, req, resp, children_of>>

\* line 201, and the locals of the call are gone
ForestReturn ==
    /\ pc = "forest" /\ stack = <<>> /\ roots = <<>>
    /\ resp' = [op |-> "hierarchy_tree", tree |-> tree]
    /\ pc' = "respond"
    /\ children_of' = <<>>
    /\ tree' = <<>>
    /\ UNCHANGED <<engine, loaded, req, roots, stack>>

ForestStep ==
    \/ CallRoot
    \/ SubtreeStop
    \/ SubtreeVisit
    \/ SubtreeCall
    \/ SubtreeReturn
    \/ ForestReturn

Next ==
    \/ ApiHierarchyTree
    \/ CallRoot
    \/ SubtreeStop
    \/ SubtreeVisit
    \/ SubtreeCall
    \/ SubtreeReturn
    \/ ForestReturn
    \/ Load
    \/ Return
    \/ ApiRelationships
    \/ ApiConceptTree
    \/ ApiConcepts
    \/ ApiStats
    \/ ApiExportYaml

Spec == Init /\ [][Next]_vars

\* a call that is running keeps running
FairSpec == Spec /\ WF_vars(ForestStep)

\* ------------------------------------------------------------------ forest
RECURSIVE RepeatsOnPath(_, _)
\* some path from node downwards meets an id of seen, or an id twice
RepeatsOnPath(node, seen) ==
    \/ node.id \in seen
    \/ \E i \in DOMAIN node.children :
          RepeatsOnPath(node.children[i], seen \cup {node.id})

RECURSIVE Height(_)
\* depth of the deepest node below node, node itself being at depth 0
Height(node) ==
    IF node.children = <<>> THEN 0
    ELSE LET hs == {Height(node.children[i]) : i \in DOMAIN node.children}
         IN  1 + CHOOSE h \in hs : \A g \in hs : g <= h

ForestReturned == pc = "respond" /\ resp.op = "hierarchy_tree"

\* C1: no path from a top-level node of the returned forest down to a leaf
\* contains the same concept ID twice.
C1_NoRepeatOnPath ==
    ForestReturned =>
        \A i \in DOMAIN resp.tree : ~RepeatsOnPath(resp.tree[i], {})

\* C2: a call of build_hierarchy_tree that has started returns its forest,
\* whatever cycles or self-loops the admitted edges have.
C2_ForestTerminates == (pc = "forest") ~> ForestReturned

\* a forest was returned from admitted edges that go round a cycle
C2_ReturnedOverCycle ==
    /\ ForestReturned
    /\ \E i \in DOMAIN resp.tree : RepeatsOnPath(resp.tree[i], {})

\* C3: every node of the returned forest is at a depth between 0 and 5, the
\* top-level nodes being at depth 0.
C3_DepthAtMostFive ==
    ForestReturned => \A i \in DOMAIN resp.tree : Height(resp.tree[i]) <= 5

\* -------------------------------------------------------------------- load
LoadStep == pc = "idle" /\ req'.op = "load"

\* C4: once a load has succeeded, a later load call with any file raises
\* nothing and leaves the four tables and the loaded flag as they are.
C4_LoadIdempotent ==
    [][(loaded /\ LoadStep) =>
          (engine' = engine /\ loaded' /\ resp'.raised = "none")]_vars

\* a second load was given a readable document with other relationships
C4_SecondLoadOtherFile ==
    /\ pc = "respond" /\ req.op = "load" /\ loaded
    /\ req.file.kind = "json"
    /\ RequiredKeys \subseteq DOMAIN req.file.data
    /\ req.file.data.relationships # relationships
    /\ req.file.data.concept_names # concept_names

\* C5: a load call that raises leaves the loaded flag false and the four
\* tables as they were before the call.
C5_FailedLoadChangesNothing ==
    [][(LoadStep /\ resp'.raised # "none") =>
          (engine' = engine /\ ~loaded')]_vars

\* ----------------------------------------------------------------- queries
\* C6: after a successful load, no step of a query operation changes the
\* concept names, the concept counts, the total citation count or the
\* relationship list (its order and the fields of its records included).
C6_QueriesKeepTables ==
    [][(loaded /\ ~LoadStep) => (engine' = engine /\ loaded')]_vars

\* a listing was answered with the records in another order than the
\* resident one
C6_ReorderedPageReturned ==
    /\ pc = "respond" /\ resp.op = "relationships"
    /\ Len(resp.results) >= 2
    /\ resp.results[1] > resp.results[2]

ListingReturned == pc = "respond" /\ resp.op = "relationships"

SetOf(s) == {s[i] : i \in DOMAIN s}

\* the filter as the claim words it: >= on each threshold, and the filter
\* text, when given, found in one name without regard to case
LiteralMatch(r, a) ==
    /\ Ge(r.narrower_count, a.min_narrower_count)
    /\ Ge(r.cooc_count, a.min_cooc)
    /\ Ge(r.p_broader_given_narrower, a.min_p_broader)
    /\ Ge(r.asymmetry, a.min_asymmetry)
    /\ a.concept_filter # None =>
          \/ Contains(Lower(a.concept_filter), Lower(r.narrower_name))
          \/ Contains(Lower(a.concept_filter), Lower(r.broader_name))

\* C7 as claimed: a relationship is counted, and returned when the limit is
\* at least the number of relationships, iff it meets the four thresholds
\* with >= and the given filter text occurs in one of its names.
C7_FilterConjunctionLiteral ==
    ListingReturned =>
        LET a == req.args
            match == {i \in DOMAIN relationships : LiteralMatch(relationships[i], a)}
        IN  /\ resp.total = Cardinality(match)
            /\ a.limit >= Len(relationships) => SetOf(resp.results) = match

\* the filter as amended: a threshold excludes a record only when the
\* record's value is below it, and the filter text is trimmed first
TrimmedMatch(r, a) ==
    LET text == IF a.concept_filter = None THEN <<>>
                ELSE Strip(Lower(a.concept_filter))
    IN  /\ r.narrower_count >= a.min_narrower_count
        /\ r.cooc_count >= a.min_cooc
        /\ (a.min_p_broader = NaN \/ r.p_broader_given_narrower >= a.min_p_broader)
        /\ (a.min_asymmetry = NaN \/ r.asymmetry >= a.min_asymmetry)
        /\ \/ text = <<>>
           \/ Contains(text, Lower(r.narrower_name))
           \/ Contains(text, Lower(r.broader_name))

\* C7 amended: a relationship is counted, and returned when the limit is at
\* least the number of relationships, iff none of its four values is below
\* its threshold (a NaN threshold excludes nothing) and the filter text,
\* trimmed of surrounding whitespace, is empty or occurs without regard to
\* case in narrower_name or broader_name.
C7_FilterConjunction ==
    ListingReturned =>
        LET a == req.args
            match == {i \in DOMAIN relationships : TrimmedMatch(relationships[i], a)}
        IN  /\ resp.total = Cardinality(match)
            /\ a.limit >= Len(relationships) => SetOf(resp.results) = match

\* a listing with a filter text kept one record and dropped another
C7_TextFilterSplits ==
    /\ ListingReturned
    /\ Truthy(req.args.concept_filter)
    /\ req.args.limit >= Len(relationships)
    /\ resp.total >= 1
    /\ \E i \in DOMAIN relationships :
          /\ i \notin SetOf(resp.results)
          /\ relationships[i].p_broader_given_narrower >= req.args.min_p_broader
          /\ relationships[i].asymmetry >= req.args.min_asymmetry
          /\ relationships[i].cooc_count >= req.args.min_cooc
          /\ relationships[i].narrower_count >= req.args.min_narrower_count

\* the key the claim orders by: the field, lower-cased for a name
ClaimKey(i, sort_by) ==
    IF sort_by \in NameFields
    THEN Lower(relationships[i][sort_by])
    ELSE relationships[i][sort_by]

ClaimKeyLess(i, j, sort_by) ==
    IF sort_by \in NameFields
    THEN StrLess(ClaimKey(i, sort_by), ClaimKey(j, sort_by))
    ELSE ClaimKey(i, sort_by) < ClaimKey(j, sort_by)

\* C8: for each of the five sort fields and each direction the page is
\* ordered by the field in that direction, names compared without regard to
\* case, and records with equal keys are in resident order.
C8_SortedAndStable ==
    (ListingReturned /\ req.args.sort_by \in SortFields) =>
        \A x, y \in DOMAIN resp.results :
            x < y =>
                LET i == resp.results[x]
                    j == resp.results[y]
                    f == req.args.sort_by
                IN  /\ IF req.args.sort_desc
                       THEN ~ClaimKeyLess(i, j, f)
                       ELSE ~ClaimKeyLess(j, i, f)
                    /\ ClaimKey(i, f) = ClaimKey(j, f) => i < j

\* a descending page by name holds two records whose names differ in case
\* only, below a record with a larger name
C8_DescendingTie ==
    /\ ListingReturned
    /\ req.args.sort_by \in NameFields /\ req.args.sort_desc
    /\ \E x, y \in DOMAIN resp.results :
          /\ x < y
          /\ ClaimKey(resp.results[x], req.args.sort_by)
                = ClaimKey(resp.results[y], req.args.sort_by)
          /\ relationships[resp.results[x]][req.args.sort_by]
                # relationships[resp.results[y]][req.args.sort_by]

Min(a, b) == IF a < b THEN a ELSE b
Max(a, b) == IF a < b THEN b ELSE a

MatchCount(a) ==
    Cardinality({i \in DOMAIN relationships : PassesFilter(relationships[i], a)})

IsPrefix(s, t) == Len(s) <= Len(t) /\ s = SubSeq(t, 1, Len(s))

\* C9 as claimed: for every integer limit the total is the number of
\* records that pass the filter, the page is the start of the filtered and
\* sorted sequence, and len(page) = min(total, limit).
C9_PageAnyLimit ==
    ListingReturned =>
        /\ resp.total = MatchCount(req.args)
        /\ IsPrefix(resp.results, FilteredResults(req.args))
        /\ Len(resp.results) = Min(resp.total, req.args.limit)

\* C9 amended: the total is the number of records that pass the filter and
\* the page is the start of the filtered and sorted sequence; for a limit
\* of 0 or more len(page) = min(total, limit), for a limit below 0
\* len(page) = max(0, total + limit).
C9_Page ==
    ListingReturned =>
        /\ resp.total = MatchCount(req.args)
        /\ IsPrefix(resp.results, FilteredResults(req.args))
        /\ Len(resp.results) =
              IF req.args.limit >= 0
              THEN Min(resp.total, req.args.limit)
              ELSE Max(0, resp.total + req.args.limit)

\* a page was cut: fewer records returned than matched
C9_PageCut ==
    /\ ListingReturned
    /\ req.args.limit = 1
    /\ resp.total >= 2
    /\ Len(resp.results) = 1

TreeResolved ==
    pc = "respond" /\ resp.op = "concept_tree" /\ "concept_id" \in DOMAIN resp

NoDuplicates(s) == \A x, y \in DOMAIN s : x # y => s[x] # s[y]

\* C10: for a resolved concept no relationship is in two of the lists
\* broader, narrower and symmetric, and none is twice in one list.
C10_Partition ==
    TreeResolved =>
        /\ SetOf(resp.broader) \cap SetOf(resp.narrower) = {}
        /\ SetOf(resp.broader) \cap SetOf(resp.symmetric) = {}
        /\ SetOf(resp.narrower) \cap SetOf(resp.symmetric) = {}
        /\ NoDuplicates(resp.broader)
        /\ NoDuplicates(resp.narrower)
        /\ NoDuplicates(resp.symmetric)

\* a relationship from the resolved concept to itself is in one of the lists
C10_SelfRelationshipListed ==
    /\ TreeResolved
    /\ \E i \in SetOf(resp.broader) \cup SetOf(resp.narrower) \cup SetOf(resp.symmetric) :
          /\ relationships[i].narrower_id = resp.concept_id
          /\ relationships[i].broader_id = resp.concept_id

\* ------------------------------------------------------------ concept tree
TreeAnswered ==
    pc = "respond" /\ resp.op = "concept_tree" /\ "error" \notin DOMAIN resp

NamesEqual(name, requested) == Lower(name) = Lower(requested)

\* C11: when the display name of some concept equals the requested name
\* without regard to case, the answer is a resolved one, for a concept whose
\* name matches, and not a list of suggestions.
C11_ExactMatchResolves ==
    (/\ TreeAnswered
     /\ \E i \in DOMAIN concept_names : NamesEqual(concept_names[i][2], req.concept))
    => /\ "concept_id" \in DOMAIN resp
       /\ "suggestions" \notin DOMAIN resp
       /\ NamesEqual(resp.concept_name, req.concept)

SuggestionEntry(i) ==
    [id |-> concept_names[i][1], name |-> concept_names[i][2],
     count |-> GetOr(concept_counts, concept_names[i][1], 0)]

\* list is the at most cap first entries, largest count first, of the
\* concepts whose lower-cased name contains text
IsSuggestionList(list, text, cap) ==
    LET found == {i \in DOMAIN concept_names :
                     Contains(text, Lower(concept_names[i][2]))}
        listed == {i \in found : SuggestionEntry(i) \in SetOf(list)}
    IN  /\ Len(list) = Min(cap, Cardinality(found))
        /\ NoDuplicates(list)
        /\ SetOf(list) = {SuggestionEntry(i) : i \in listed}
        /\ \A x, y \in DOMAIN list : x < y => list[x].count >= list[y].count
        /\ \A i \in found \ listed : \A x \in DOMAIN list :
              SuggestionEntry(i).count <= list[x].count

IsSuggestionsAnswer(text) ==
    /\ "suggestions" \in DOMAIN resp
    /\ "concept_id" \notin DOMAIN resp
    /\ resp.broader = <<>> /\ resp.narrower = <<>> /\ resp.symmetric = <<>>
    /\ IsSuggestionList(resp.suggestions, text, 20)

\* C12 as claimed: when no display name equals the requested name without
\* regard to case, the answer has empty broader, narrower and symmetric
\* lists and the suggestions are the concepts whose name contains the
\* requested text, largest count first, cut to 20.
C12_SuggestionsLiteral ==
    (/\ TreeAnswered
     /\ ~\E i \in DOMAIN concept_names : NamesEqual(concept_names[i][2], req.concept))
    => IsSuggestionsAnswer(Lower(req.concept))

\* C12 amended: the requested name is first stripped of leading and
\* trailing whitespace; when no display name equals the stripped name
\* without regard to case, the answer has empty broader, narrower and
\* symmetric lists and the suggestions are the concepts whose name contains
\* the stripped text, largest count first, cut to 20.
C12_Suggestions ==
    (/\ TreeAnswered
     /\ ~\E i \in DOMAIN concept_names :
            NamesEqual(concept_names[i][2], Strip(req.concept)))
    => IsSuggestionsAnswer(Strip(Lower(req.concept)))

\* more than 20 concepts matched and 20 were suggested, not in table order
C12_SuggestionsCut ==
    /\ TreeAnswered /\ "suggestions" \in DOMAIN resp
    /\ Len(resp.suggestions) = 20
    /\ Len(concept_names) > 20
    /\ \E x \in DOMAIN resp.suggestions : resp.suggestions[x].id # concept_names[x][1]

\* ------------------------------------------------------------ forest roots
\* the admission rule as the claims word it
IsAdmittedEdge(r, a) ==
    /\ Ge(r.p_broader_given_narrower, a.min_p_broader)
    /\ Ge(r.asymmetry, a.min_asymmetry)
    /\ Ge(r.cooc_count, a.min_cooc)
    /\ Ge(r.narrower_count, a.min_count)

AdmittedSet == {i \in DOMAIN relationships : IsAdmittedEdge(relationships[i], req.args)}

BroaderEnds == {relationships[i].broader_id : i \in AdmittedSet}
NarrowerEnds == {relationships[i].narrower_id : i \in AdmittedSet}

TopIds == [i \in DOMAIN resp.tree |-> resp.tree[i].id]

\* C13: a concept is a top-level node of the returned forest iff it is the
\* broader endpoint of an admitted edge and the narrower endpoint of none,
\* and the top-level nodes are in descending order of citation count.
C13_RootSelection ==
    ForestReturned =>
        /\ SetOf(TopIds) = BroaderEnds \ NarrowerEnds
        /\ NoDuplicates(TopIds)
        /\ \A x \in DOMAIN resp.tree :
              resp.tree[x].count = Get(concept_counts, resp.tree[x].id)
        /\ \A x, y \in DOMAIN resp.tree :
              x < y => resp.tree[x].count >= resp.tree[y].count

\* two roots were returned, and the one whose edge comes first in the
\* relationship list has the smaller count and is second
C13_RootsReordered ==
    /\ ForestReturned
    /\ Len(resp.tree) >= 2
    /\ resp.tree[1].count > resp.tree[2].count
    /\ relationships[1].broader_id = resp.tree[2].id
    /\ 1 \in AdmittedSet

\* C14: every top-level node of the returned forest has a child.
C14_RootsHaveChildren ==
    ForestReturned => \A x \in DOMAIN resp.tree : resp.tree[x].children # <<>>

\* a forest with a root was returned while another admitted edge has a
\* broader endpoint that is no root
C14_ForestWithRoot ==
    /\ ForestReturned
    /\ resp.tree # <<>>
    /\ BroaderEnds \ SetOf(TopIds) # {}

RECURSIVE ExpectedSubtree(_, _, _, _)
\* the nodes below a concept, given only its ancestors on the path and its
\* depth: none when it is its own ancestor or deeper than 5, else all its
\* admitted children, each with the nodes below it
ExpectedSubtree(children, id, depth, ancestors) ==
    IF id \in ancestors \/ depth > 5 THEN <<>>
    ELSE LET kids == GetOr(children, id, <<>>)
         IN  [j \in DOMAIN kids |->
                kids[j] @@ [children |->
                    ExpectedSubtree(children, kids[j].id, depth + 1,
                                    ancestors \cup {id})]]

\* C16: the nodes below a node depend on its own path only: every root's
\* subtree is the one built from the concept, its ancestors and its depth,
\* so a concept below two parents is expanded below both.
C16_PerPathVisited ==
    ForestReturned =>
        LET children == ChildrenOf(req.args)
        IN  \A x \in DOMAIN resp.tree :
                resp.tree[x].children
                    = ExpectedSubtree(children, resp.tree[x].id, 0, {})

RECURSIVE Occurrences(_, _)
\* <<parent id, id, has children>> for every node below parent
Occurrences(parent, nodes) ==
    UNION {{<<parent, nodes[j].id, nodes[j].children # <<>> >>}
             \cup Occurrences(nodes[j].id, nodes[j].children) : j \in DOMAIN nodes}

\* below one root a concept stands under two parents, with children below
\* it both times
C16_ExpandedUnderTwoParents ==
    /\ ForestReturned
    /\ \E x \in DOMAIN resp.tree :
          \E o1, o2 \in Occurrences(resp.tree[x].id, resp.tree[x].children) :
              /\ o1[2] = o2[2] /\ o1[1] # o2[1]
              /\ o1[3] /\ o2[3]

RECURSIVE ReachableFrom(_)
\* the concepts reached from the set S along admitted edges, broader to
\* narrower
ReachableFrom(S) ==
    LET T == S \cup {relationships[i].narrower_id :
                        i \in {j \in AdmittedSet : relationships[j].broader_id \in S}}
    IN  IF T = S THEN S ELSE ReachableFrom(T)

RECURSIVE LinksBelow(_, _)
\* <<parent id, child id>> for every node below parent
LinksBelow(parent, nodes) ==
    UNION {{<<parent, nodes[j].id>>} \cup LinksBelow(nodes[j].id, nodes[j].children) :
             j \in DOMAIN nodes}

ForestLinks ==
    UNION {LinksBelow(resp.tree[x].id, resp.tree[x].children) : x \in DOMAIN resp.tree}

\* C19: when every broader endpoint of an admitted edge is also a narrower
\* endpoint of one, the forest is empty; every parent-child link of the
\* forest is an admitted edge whose broader concept is reached from a root.
C19_RootlessEdgesAbsent ==
    ForestReturned =>
        /\ BroaderEnds \subseteq NarrowerEnds => resp.tree = <<>>
        /\ \A link \in ForestLinks :
              /\ link[1] \in ReachableFrom(BroaderEnds \ NarrowerEnds)
              /\ \E i \in AdmittedSet :
                    /\ relationships[i].broader_id = link[1]
                    /\ relationships[i].narrower_id = link[2]

\* the admitted edges are a cycle of three and the forest is empty
C19_EmptyForestOverRing ==
    /\ ForestReturned
    /\ resp.tree = <<>>
    /\ Cardinality(AdmittedSet) = 3
    /\ Cardinality(BroaderEnds) = 3
    /\ BroaderEnds = NarrowerEnds

\* ------------------------------------------------------------------ export
ExportReturned == pc = "respond" /\ resp.op = "export_yaml"

\* the relationships the export lists: those that pass its four thresholds
ExportedSet ==
    {i \in DOMAIN relationships :
        /\ relationships[i].narrower_count >= req.args.min_count
        /\ relationships[i].cooc_count >= req.args.min_cooc
        /\ relationships[i].p_broader_given_narrower >= req.args.min_p
        /\ relationships[i].asymmetry >= req.args.min_asym}

BlockNames == [x \in DOMAIN resp.blocks |-> resp.blocks[x].broader]

\* one block for each broader concept of the listed relationships, and in
\* each block the narrower members by descending P(broader|narrower)
ExportGroupsRight ==
    /\ NoDuplicates(BlockNames)
    /\ SetOf(BlockNames) = {relationships[i].broader_name : i \in ExportedSet}
    /\ Len(resp.blocks) = Cardinality({relationships[i].broader_id : i \in ExportedSet})
    /\ \A x \in DOMAIN resp.blocks :
          /\ Len(resp.blocks[x].narrower)
                = Cardinality({i \in ExportedSet :
                                 relationships[i].broader_name = BlockNames[x]})
          /\ \A u, v \in DOMAIN resp.blocks[x].narrower :
                u < v => resp.blocks[x].narrower[u].pct >= resp.blocks[x].narrower[v].pct

\* C15: the export has one block per broader concept of the filtered
\* relationships, the blocks are in ascending order of broader name compared
\* without regard to case, as the listing is, and in each block the narrower
\* members are in descending order of P(broader|narrower).
C15_ExportOrder ==
    ExportReturned =>
        /\ ExportGroupsRight
        /\ \A x, y \in DOMAIN resp.blocks :
              x < y => ~StrLess(Lower(BlockNames[y]), Lower(BlockNames[x]))

\* ------------------------------------------------------- neighbour lists
\* list is the at most cap first relationships of the set Q, the largest
\* value of field first
IsTopList(list, Q, field, cap) ==
    /\ Len(list) = Min(cap, Cardinality(Q))
    /\ NoDuplicates(list)
    /\ SetOf(list) \subseteq Q
    /\ \A x, y \in DOMAIN list :
          x < y => relationships[list[x]][field] >= relationships[list[y]][field]
    /\ \A i \in Q \ SetOf(list) : \A x \in DOMAIN list :
          relationships[i][field] <= relationships[list[x]][field]

\* the thresholds of the broader and narrower lists
MeetsThresholds(r, a) ==
    /\ Ge(r.cooc_count, a.min_cooc)
    /\ Ge(r.narrower_count, a.min_count)
    /\ Ge(r.p_broader_given_narrower, a.min_p_broader)
    /\ Ge(r.asymmetry, a.min_asymmetry)

BroaderSet ==
    {i \in DOMAIN relationships :
        /\ relationships[i].narrower_id = resp.concept_id
        /\ MeetsThresholds(relationships[i], req.args)}

\* C17 as claimed: the broader list is the first 50, by descending
\* P(broader|narrower), of the relationships whose narrower endpoint is the
\* resolved concept and that meet the four thresholds; the narrower list is
\* the same for the relationships whose broader endpoint is the concept.
C17_ListsLiteral ==
    TreeResolved =>
        /\ IsTopList(resp.broader, BroaderSet, "p_broader_given_narrower", 50)
        /\ IsTopList(resp.narrower,
                     {i \in DOMAIN relationships :
                         /\ relationships[i].broader_id = resp.concept_id
                         /\ MeetsThresholds(relationships[i], req.args)},
                     "p_broader_given_narrower", 50)

\* C17 amended: as claimed for the broader list; the narrower list is the
\* first 50, by descending P(broader|narrower), of the relationships whose
\* broader endpoint is the resolved concept, whose narrower endpoint is
\* another concept, and that meet the four thresholds (narrower_count being
\* the count compared with min_count).
C17_Lists ==
    TreeResolved =>
        /\ IsTopList(resp.broader, BroaderSet, "p_broader_given_narrower", 50)
        /\ IsTopList(resp.narrower,
                     {i \in DOMAIN relationships :
                         /\ relationships[i].broader_id = resp.concept_id
                         /\ relationships[i].narrower_id # resp.concept_id
                         /\ MeetsThresholds(relationships[i], req.args)},
                     "p_broader_given_narrower", 50)

\* more than 50 relationships qualified for the broader list and 50 were
\* returned
C17_BroaderCut ==
    /\ TreeResolved
    /\ Len(resp.broader) = 50
    /\ Cardinality(BroaderSet) > 50

\* C18: the symmetric list is the first 30, by descending cooc_count, of the
\* relationships that touch the resolved concept with cooc_count >= min_cooc,
\* asymmetry < min_asymmetry and P(broader|narrower) >= 0.2, whatever
\* min_p_broader and min_count are.
C18_SymmetricList ==
    TreeResolved =>
        IsTopList(resp.symmetric,
                  {i \in DOMAIN relationships :
                      /\ \/ relationships[i].narrower_id = resp.concept_id
                         \/ relationships[i].broader_id = resp.concept_id
                      /\ Ge(relationships[i].cooc_count, req.args.min_cooc)
                      /\ Lt(relationships[i].asymmetry, req.args.min_asymmetry)
                      /\ relationships[i].p_broader_given_narrower >= 2},
                  "cooc_count", 30)

\* more than 30 relationships qualified for the symmetric list, 30 were
\* returned, and one of them is below min_p_broader or below min_count
C18_CutBelowThresholds ==
    /\ TreeResolved
    /\ Len(resp.symmetric) = 30
    /\ Cardinality({i \in DOMAIN relationships :
                       relationships[i].narrower_id = resp.concept_id}) > 30
    /\ \E i \in SetOf(resp.symmetric) :
          \/ Lt(relationships[i].p_broader_given_narrower, req.args.min_p_broader)
          \/ relationships[i].narrower_count < req.args.min_count
====
